---------------------------- MODULE Spec2Model ----------------------------
(***************************************************************************)
(* Model of the heap allocator of src/heapAllocator/alloc.c (mymalloc,     *)
(* mycalloc, myfree, myrealloc and their helpers) running on the brk       *)
(* emulation of src/heapAllocator/test_framework/intercept.c, driven by a  *)
(* caller that behaves like test_framework/checked_alloc.c: it fills every *)
(* allocation with a fresh byte pattern, scribbles 0xff over a buffer      *)
(* before releasing it, and only releases or reallocates live pointers.    *)
(*                                                                         *)
(* Addresses and sizes are byte counts.  A block header (meta_t) is one    *)
(* 64-bit word; it is kept as the pair (bit 63, bits 0..62) = (free,       *)
(* units), so that FLAG_BIT keeps its place without 64-bit arithmetic.     *)
(* The headers are stored in desc, keyed by header address; the data       *)
(* bytes are stored in mem as a set of disjoint intervals of equal bytes.  *)
(***************************************************************************)
EXTENDS Integers, Sequences, FiniteSets, TLC

\* ------------------------------------------------------------------------
\* Program constants
\* ------------------------------------------------------------------------
PAGE_SIZE == 4096
ALIGNMENT == 8
SizeofMeta == 8
CacheSlots == 5
NULL == 0
PoisonByte == 173
FreedByte == 255

\* ------------------------------------------------------------------------
\* Bounds of the model
\* ------------------------------------------------------------------------
MaxHeapPages == 3
MaxOps == 5
MaxLive == 2
MaxRun == 3         \* buffers a reuse test allocates before it releases
MaxUnits == 64      \* units of the largest total size a descriptor is written for

\* size_t and intptr_t: words of WordBits bits, wide enough for every address
\* and size of the bounded heap; unsigned arithmetic is taken modulo Word
WordBits == 20
Word == 2 ^ WordBits
wrap(x) == x % Word
\* the conversion of a size_t value to the intptr_t parameter of sbrk
to_intptr(x) == IF x >= Word \div 2 THEN x - Word ELSE x

\* the heap starts at a page-aligned, non-null address (mmap result)
heap == 16 * PAGE_SIZE
max_brk_size == MaxHeapPages * PAGE_SIZE

\* request sizes the caller draws from: 0, unaligned sizes, the aligned size
\* whose block has 8 units, and a size that needs more than a page
Sizes == {0, 20, 56, 100, 4090}
ReallocSizes == {20, 100, 4090}
NullSizes == {0, 20}
CallocArgs == {<<0, 8>>, <<1, 0>>, <<5, 1>>}
\* sizes of the reuse tests: 8 (test_locality), 10 (test_realloc_zero), and
\* 56, whose block is 8 units long
ReuseSizes == {8, 10, 56}
\* aligned sizes handed to split_block
SplitSizes == {8, 24, 104, 4000}
\* request sizes that leave a remainder of 8 units in the first page
EdgeSizes == {20, 4024}
\* aligned sizes handed to expand_heap
GrowSizes == {8, 4080, 4088, 4096}
\* a caller that fills a page with one buffer and shrinks it
FillSizes == {20, 4080}
\* sizes of the small allocations that follow a release
SmallSizes == {8, 20, 40}
ShrinkSizes == {20, 4024}

VARIABLES
    base_block,              \* alloc.c: beginning of heap chain
    first_free,              \* alloc.c: left-most known free block
    recent_freed,            \* alloc.c: 5 most recently freed blocks
    desc,                    \* header address -> [free, units] (meta_t.descriptor)
    cur_brk,                 \* intercept.c: current heap boundary
    num_brk_increase_calls,  \* intercept.c
    mem,                     \* data bytes of [heap, cur_brk), as intervals
    status,                  \* "running", "exited" (fatal error), "crashed", "corrupted"
    diag,                    \* diagnostics (perror) printed by the last call
    allocs,                  \* memlist.c: live allocations of the caller
    data_cnt,                \* checked_alloc.c: get_data counter
    last,                    \* the last call of the caller and its result
    nops,                    \* number of calls made
    run                      \* tests.c: the buffers a reuse test released
                             \* (most recent first) and the ones it got back

vars == <<base_block, first_free, recent_freed, desc, cur_brk,
          num_brk_increase_calls, mem, status, diag, allocs, data_cnt,
          last, nops, run>>

\* ------------------------------------------------------------------------
\* Memory as intervals of equal bytes
\* ------------------------------------------------------------------------
Max2(a, b) == IF a >= b THEN a ELSE b
Min2(a, b) == IF a <= b THEN a ELSE b
SetMin(S) == CHOOSE x \in S : \A y \in S : x <= y

\* m without the bytes lo..hi
Clear(m, lo, hi) ==
    {iv \in m : iv.hi < lo \/ iv.lo > hi}
    \cup {[lo |-> iv.lo, hi |-> lo - 1, val |-> iv.val] :
            iv \in {j \in m : j.lo < lo /\ j.hi >= lo}}
    \cup {[lo |-> hi + 1, hi |-> iv.hi, val |-> iv.val] :
            iv \in {j \in m : j.hi > hi /\ j.lo <= hi}}

\* memset(p, v, n)
memset(m, p, v, n) ==
    IF n = 0 THEN m
    ELSE Clear(m, p, p + n - 1) \cup {[lo |-> p, hi |-> p + n - 1, val |-> v]}

\* memcpy(dst, src, n) for regions that do not overlap
memcpy(m, dst, src, n) ==
    IF n = 0 THEN m
    ELSE Clear(m, dst, dst + n - 1)
         \cup {[lo |-> Max2(iv.lo, src) - src + dst,
                hi |-> Min2(iv.hi, src + n - 1) - src + dst,
                val |-> iv.val] :
                 iv \in {j \in m : j.hi >= src /\ j.lo <= src + n - 1}}

\* the byte stored at address a
ByteAt(m, a) == (CHOOSE iv \in m : iv.lo <= a /\ a <= iv.hi).val

\* ------------------------------------------------------------------------
\* Descriptor management (alloc.c 269-305)
\* ------------------------------------------------------------------------
check_free(s, meta) == s.desc[meta].free

set_free(s, meta) == [s EXCEPT !.desc[meta].free = TRUE]

set_inuse(s, meta) == [s EXCEPT !.desc[meta].free = FALSE]

set_descriptor(s, meta, total_size) ==
    set_free([s EXCEPT !.desc =
                 (meta :> [free |-> FALSE, units |-> total_size \div ALIGNMENT]) @@ @],
             meta)

get_next_meta(s, meta) == meta + s.desc[meta].units * SizeofMeta

get_data_size(s, meta) ==
    LET offset == s.desc[meta].units
    IN  IF offset = 8 THEN 0 ELSE wrap(offset * 8 - 8)

\* ------------------------------------------------------------------------
\* Sequencing: the value v of one statement, handed to the rest F of the
\* function body (v is computed once)
\* ------------------------------------------------------------------------
Bind(v, F(_)) == CHOOSE r \in {F(x) : x \in {v}} : TRUE

\* ------------------------------------------------------------------------
\* Heap source (intercept.c)
\* ------------------------------------------------------------------------
\* sbrk without the limit of do_brk
sbrk_no_limit(s, increment) ==
    [s EXCEPT !.cur_brk = @ + increment,
              !.num_brk_increase_calls = @ + 1,
              !.mem = memset(@, s.cur_brk, PoisonByte, increment)]

\* sbrk(increment), that is do_brk(cur_brk + increment): the old boundary is
\* the result; the asserts of do_brk end the program
sbrk(s, increment) ==
    LET addr == s.cur_brk + increment
    IN  IF addr < heap
        THEN [s EXCEPT !.status = "exited",
                       !.diag = @ \cup {"New brk before heap start"}]
        ELSE IF addr > heap + max_brk_size
        THEN [s EXCEPT !.status = "exited",
                       !.diag = @ \cup {"New brk beyond max heap size"}]
        ELSE IF addr = s.cur_brk THEN s
        ELSE IF addr > s.cur_brk
        THEN [s EXCEPT !.cur_brk = addr,
                       !.num_brk_increase_calls = @ + 1,
                       !.mem = memset(@, s.cur_brk, PoisonByte, increment)]
        ELSE IF \E a \in s.allocs : a.ptr < s.cur_brk /\ addr < a.ptr + a.size
        THEN [s EXCEPT !.status = "exited",
                       !.diag = @ \cup {"Area freed by lowering brk still contains allocation"}]
        ELSE [s EXCEPT !.cur_brk = addr]

\* ------------------------------------------------------------------------
\* Memory management (alloc.c 173-266)
\* ------------------------------------------------------------------------
align(size) ==
    IF size = 0 THEN ALIGNMENT
    ELSE IF size % ALIGNMENT # 0 THEN wrap(size + ALIGNMENT - (size % ALIGNMENT))
    ELSE size

\* the header written at the old boundary lies in a page without access
\* (intercept.c 26-27, 68-69) when the boundary has not moved up
expand_heap(s, aligned_size) ==
    LET page_request == wrap(aligned_size + SizeofMeta) \div PAGE_SIZE + 1
        result == s.cur_brk
    IN  Bind(sbrk(s, to_intptr(wrap(page_request * PAGE_SIZE))), LAMBDA s1 :
          IF s1.status # "running" THEN [st |-> s1, ret |-> NULL]
          ELSE IF result >= s1.cur_brk
          THEN [st |-> [s1 EXCEPT !.status = "crashed"], ret |-> NULL]
          ELSE Bind(set_free(set_descriptor(s1, result, wrap(page_request * PAGE_SIZE)),
                             result), LAMBDA s2 :
                 [st |-> [s2 EXCEPT !.first_free = result], ret |-> result]))

\* split_block that leaves the left-most-free marker where it is
split_block_keeps_marker(s, left, aligned_size) ==
    LET total_size == get_data_size(s, left)
    IN  Bind(set_free(set_descriptor(s, left, wrap(aligned_size + SizeofMeta)), left),
             LAMBDA s1 :
          LET right == get_next_meta(s1, left)
          IN  IF right >= s1.cur_brk
              THEN [st |-> [s1 EXCEPT !.status = "crashed"], ret |-> NULL]
              ELSE
              Bind(set_free(set_descriptor(s1, right, wrap(total_size - aligned_size)),
                            right), LAMBDA s2 :
                 [st |-> s2, ret |-> left]))

\* split_block with a right block one unit short of the remainder
split_block_short_right(s, left, aligned_size) ==
    LET total_size == get_data_size(s, left)
    IN  Bind(set_free(set_descriptor(s, left, wrap(aligned_size + SizeofMeta)), left),
             LAMBDA s1 :
          LET right == get_next_meta(s1, left)
          IN  IF right >= s1.cur_brk
              THEN [st |-> [s1 EXCEPT !.status = "crashed"], ret |-> NULL]
              ELSE
              Bind(set_free(set_descriptor(s1, right,
                                           wrap(total_size - aligned_size - ALIGNMENT)),
                            right), LAMBDA s2 :
                 [st |-> [s2 EXCEPT !.first_free = right], ret |-> left]))

\* the header of the right block is written where the left block now ends;
\* at or above the boundary that is a page without access (intercept.c 26-27)
split_block(s, left, aligned_size) ==
    LET total_size == get_data_size(s, left)
    IN  Bind(set_free(set_descriptor(s, left, wrap(aligned_size + SizeofMeta)), left),
             LAMBDA s1 :
          LET right == get_next_meta(s1, left)
          IN  IF right >= s1.cur_brk
              THEN [st |-> [s1 EXCEPT !.status = "crashed"], ret |-> NULL]
              ELSE
              Bind(set_free(set_descriptor(s1, right, wrap(total_size - aligned_size)),
                            right), LAMBDA s2 :
                 [st |-> [s2 EXCEPT !.first_free = right], ret |-> left]))

\* what a walk along the chain yields when it arrives at an address that is
\* neither a header nor the boundary: the read of a descriptor there is a read
\* of memory the allocator never wrote, or of a page without access
Fault == -1

\* label block_split of get_free_block
block_split(s, result, aligned_size) ==
    IF wrap(get_data_size(s, result) - aligned_size) > SizeofMeta + ALIGNMENT
    THEN split_block(s, result, aligned_size)
    ELSE [st |-> s, ret |-> result]

\* label heap_expand of get_free_block
heap_expand(s, aligned_size) ==
    Bind(expand_heap(s, aligned_size), LAMBDA e :
      IF e.st.status # "running" THEN e
      ELSE Bind(IF e.st.base_block = NULL
                THEN [e.st EXCEPT !.base_block = e.ret]
                ELSE e.st, LAMBDA s1 :
             block_split(s1, e.ret, aligned_size)))

\* a scan that takes the first block flagged free, whatever its size
RECURSIVE first_fit_any_size(_, _, _)
first_fit_any_size(s, result, aligned_size) ==
    IF result = s.cur_brk THEN result
    ELSE IF result \notin DOMAIN s.desc THEN Fault
    ELSE IF ~check_free(s, result)
         THEN first_fit_any_size(s, get_next_meta(s, result), aligned_size)
    ELSE result

\* the first-fit loop of get_free_block; the boundary stands for "no match"
RECURSIVE first_fit(_, _, _)
first_fit(s, result, aligned_size) ==
    IF result = s.cur_brk THEN result
    ELSE IF result \notin DOMAIN s.desc THEN Fault
    ELSE IF ~check_free(s, result)
         THEN first_fit(s, get_next_meta(s, result), aligned_size)
    ELSE IF get_data_size(s, result) >= aligned_size THEN result
    ELSE first_fit(s, get_next_meta(s, result), aligned_size)

\* get_free_block that leaves the block it takes in its cache slot
get_free_block_keeps_slot(s, aligned_size) ==
    IF s.base_block = NULL THEN heap_expand(s, aligned_size)
    ELSE Bind({i \in 1..CacheSlots :
                 /\ s.recent_freed[i] # NULL
                 /\ get_data_size(s, s.recent_freed[i]) >= aligned_size},
              LAMBDA hits :
           IF hits # {}
           THEN Bind(SetMin(hits), LAMBDA i :
                  Bind(s, LAMBDA s1 :
                    block_split(s1, s.recent_freed[i], aligned_size)))
           ELSE Bind(first_fit(s, s.first_free, aligned_size), LAMBDA result :
                  IF result = Fault
                  THEN [st |-> [s EXCEPT !.status = "crashed"], ret |-> NULL]
                  ELSE IF result = s.cur_brk
                  THEN heap_expand(s, aligned_size)
                  ELSE block_split(s, result, aligned_size)))

get_free_block(s, aligned_size) ==
    IF s.base_block = NULL THEN heap_expand(s, aligned_size)
    ELSE Bind({i \in 1..CacheSlots :
                 /\ s.recent_freed[i] # NULL
                 /\ get_data_size(s, s.recent_freed[i]) >= aligned_size},
              LAMBDA hits :
           IF hits # {}
           THEN Bind(SetMin(hits), LAMBDA i :
                  Bind([s EXCEPT !.recent_freed[i] = NULL], LAMBDA s1 :
                    block_split(s1, s.recent_freed[i], aligned_size)))
           ELSE Bind(first_fit(s, s.first_free, aligned_size), LAMBDA result :
                  IF result = Fault
                  THEN [st |-> [s EXCEPT !.status = "crashed"], ret |-> NULL]
                  ELSE IF result = s.cur_brk
                  THEN heap_expand(s, aligned_size)
                  ELSE block_split(s, result, aligned_size)))

\* ------------------------------------------------------------------------
\* Public functions (alloc.c 56-171)
\* ------------------------------------------------------------------------
\* mymalloc returning the header instead of the data region behind it
mymalloc_returns_header(s, size) ==
    IF size = 0 THEN [st |-> s, ret |-> NULL]
    ELSE Bind(get_free_block(s, align(size)), LAMBDA g :
           IF g.st.status # "running" THEN [st |-> g.st, ret |-> NULL]
           ELSE [st |-> set_inuse(g.st, g.ret), ret |-> g.ret])

\* mymalloc without the early return for size 0
mymalloc_no_zero_check(s, size) ==
    Bind(get_free_block(s, align(size)), LAMBDA g :
      IF g.st.status # "running" THEN [st |-> g.st, ret |-> NULL]
      ELSE [st |-> set_inuse(g.st, g.ret), ret |-> g.ret + SizeofMeta])

mymalloc(s, size) ==
    IF size = 0 THEN [st |-> s, ret |-> NULL]
    ELSE Bind(get_free_block(s, align(size)), LAMBDA g :
           IF g.st.status # "running" THEN [st |-> g.st, ret |-> NULL]
           ELSE [st |-> set_inuse(g.st, g.ret), ret |-> g.ret + SizeofMeta])

\* mycalloc that clears size bytes instead of nmemb * size
mycalloc_short_memset(s, nmemb, size) ==
    Bind(mymalloc(s, wrap(nmemb * size)), LAMBDA r :
      IF r.st.status # "running" THEN r
      ELSE IF nmemb # 0 /\ size # 0
           THEN [st |-> [r.st EXCEPT !.mem = memset(@, r.ret, 0, size)],
                 ret |-> r.ret]
           ELSE r)

mycalloc(s, nmemb, size) ==
    Bind(mymalloc(s, wrap(nmemb * size)), LAMBDA r :
      IF r.st.status # "running" THEN r
      ELSE IF nmemb # 0 /\ size # 0
           THEN [st |-> [r.st EXCEPT !.mem = memset(@, r.ret, 0, wrap(nmemb * size))],
                 ret |-> r.ret]
           ELSE r)

\* the search loop of myfree: the block found, or the boundary
RECURSIVE find_block(_, _, _)
find_block(s, curr, ptr) ==
    IF curr = s.cur_brk THEN curr
    ELSE IF curr \notin DOMAIN s.desc THEN Fault
    ELSE IF curr + SizeofMeta = ptr /\ ~check_free(s, curr) THEN curr
    ELSE find_block(s, get_next_meta(s, curr), ptr)

\* the test of alloc.c line 82, `!(uintptr_t) ptr % ALIGNMENT != 0`: the
\* negation binds to ptr, so the remainder is taken of 0 or 1
bad_alignment(ptr) == ((IF ptr = NULL THEN 1 ELSE 0) % ALIGNMENT) # 0

\* the chain walk of myfree with a cache that is not shifted: the released
\* block overwrites the first slot
free_walk_no_shift(s, ptr) ==
    IF s.base_block = NULL THEN [s EXCEPT !.status = "crashed"]
    ELSE Bind(find_block(s, s.base_block, ptr), LAMBDA curr :
           IF curr = Fault THEN [s EXCEPT !.status = "crashed"]
           ELSE IF curr = s.cur_brk
           THEN [s EXCEPT !.diag = @ \cup {"can find the block"}]
           ELSE Bind(set_free(s, curr), LAMBDA s1 :
                  [s1 EXCEPT
                     !.first_free = IF @ = NULL \/ curr < @ THEN curr ELSE @,
                     !.recent_freed = <<curr>> \o Tail(@)]))

\* the chain walk of myfree with the merge that alloc.c 96-105 leaves
\* commented out: a released block takes in a free block that follows it
free_walk_merging(s, ptr) ==
    IF s.base_block = NULL THEN [s EXCEPT !.status = "crashed"]
    ELSE Bind(find_block(s, s.base_block, ptr), LAMBDA curr :
           IF curr = Fault THEN [s EXCEPT !.status = "crashed"]
           ELSE IF curr = s.cur_brk
           THEN [s EXCEPT !.diag = @ \cup {"can find the block"}]
           ELSE Bind(get_next_meta(s, curr), LAMBDA next :
                  Bind(IF next # s.cur_brk /\ check_free(s, next)
                       THEN [s EXCEPT !.desc =
                               [h \in DOMAIN s.desc \ {next} |->
                                  IF h = curr
                                  THEN [free |-> TRUE,
                                        units |-> s.desc[curr].units + s.desc[next].units]
                                  ELSE s.desc[h]]]
                       ELSE set_free(s, curr), LAMBDA s1 :
                    [s1 EXCEPT
                       !.first_free = IF @ = NULL \/ curr < @ THEN curr ELSE @,
                       !.recent_freed = <<curr>> \o SubSeq(@, 1, CacheSlots - 1)])))

\* myfree after the null test (alloc.c 81-126): two tests that only print,
\* then the chain walk
free_walk(s, ptr) ==
    Bind([s EXCEPT !.diag =
             @ \cup (IF s.base_block = NULL
                     THEN {"No memory has been allocated yet"} ELSE {})
               \cup (IF bad_alignment(ptr)
                     THEN {"Bad alignment, not a possible block"} ELSE {})],
         LAMBDA s0 :
      IF s0.base_block = NULL
      THEN \* the loop reads the header at address 0
           [s0 EXCEPT !.status = "crashed"]
      ELSE Bind(find_block(s0, s0.base_block, ptr), LAMBDA curr :
             IF curr = Fault THEN [s0 EXCEPT !.status = "crashed"]
             ELSE IF curr = s0.cur_brk
             THEN [s0 EXCEPT !.diag = @ \cup {"can find the block"}]
             ELSE Bind(set_free(s0, curr), LAMBDA s1 :
                    [s1 EXCEPT
                       !.first_free = IF @ = NULL \/ curr < @ THEN curr ELSE @,
                       !.recent_freed = <<curr>> \o SubSeq(@, 1, CacheSlots - 1)])))

\* myfree without the early return for a null pointer
myfree_no_null_check(s, ptr) == free_walk(s, ptr)

myfree(s, ptr) ==
    IF ptr = NULL THEN s ELSE free_walk(s, ptr)

\* myrealloc for a non-null pointer and a size > 0 (alloc.c 147-170)
realloc_block(s, ptr, size) ==
    IF s.base_block = NULL
    THEN [st |-> [s EXCEPT !.diag = @ \cup {"no memory has yet been allocated"}],
          ret |-> NULL]
    ELSE LET meta == ptr - SizeofMeta
             aligned_size == align(size)
         IN  IF aligned_size > get_data_size(s, meta)
             THEN Bind(mymalloc(s, aligned_size), LAMBDA n :
                    IF n.st.status # "running" \/ n.ret = NULL
                    THEN [st |-> n.st, ret |-> NULL]
                    ELSE Bind([n.st EXCEPT !.mem =
                                 memcpy(@, n.ret, ptr, get_data_size(s, meta))],
                              LAMBDA s1 :
                           [st |-> myfree(s1, ptr), ret |-> n.ret]))
             ELSE IF wrap(get_data_size(s, meta) - aligned_size) > SizeofMeta + ALIGNMENT
             THEN [st |-> split_block(s, meta, aligned_size).st, ret |-> meta + SizeofMeta]
             ELSE [st |-> s, ret |-> meta + SizeofMeta]

\* myrealloc that takes a null pointer for a buffer to release when size is
\* 0 and reports it otherwise, instead of allocating
myrealloc_no_null_case(s, ptr, size) ==
    IF size = 0 THEN [st |-> myfree(s, ptr), ret |-> NULL]
    ELSE IF ptr = NULL
    THEN [st |-> [s EXCEPT !.diag = @ \cup {"no memory has yet been allocated"}],
          ret |-> NULL]
    ELSE realloc_block(s, ptr, size)

myrealloc(s, ptr, size) ==
    IF ptr = NULL THEN mymalloc(s, size)
    ELSE IF size = 0 THEN [st |-> myfree(s, ptr), ret |-> NULL]
    ELSE realloc_block(s, ptr, size)

\* ------------------------------------------------------------------------
\* The caller (test_framework/checked_alloc.c) and the state machine
\* ------------------------------------------------------------------------
\* the allocator's state, as the record the functions above work on
AllocState ==
    [base_block |-> base_block, first_free |-> first_free,
     recent_freed |-> recent_freed, desc |-> desc, cur_brk |-> cur_brk,
     num_brk_increase_calls |-> num_brk_increase_calls, mem |-> mem,
     status |-> status, diag |-> {}, allocs |-> allocs]

\* get_data: a byte pattern per allocation, never 0 and never 0xff
get_data(c) ==
    LET d == (c + 1) % 256
    IN  IF d = 0 \/ d = 255 THEN 1 ELSE d

\* the caller writes n bytes v at p; a write over a block header leaves the
\* allocator with a descriptor the caller chose, where the model stops
UserFill(s, p, v, n) ==
    IF \E h \in DOMAIN s.desc : h + SizeofMeta > p /\ h < p + n
    THEN [s EXCEPT !.status = "corrupted"]
    ELSE [s EXCEPT !.mem = memset(@, p, v, n)]

Init ==
    /\ base_block = NULL
    /\ first_free = NULL
    /\ recent_freed = <<NULL, NULL, NULL, NULL, NULL>>
    /\ desc = <<>>
    /\ cur_brk = heap
    /\ num_brk_increase_calls = 0
    /\ mem = {}
    /\ status = "running"
    /\ diag = {}
    /\ allocs = {}
    /\ data_cnt = 0
    /\ last = [op |-> "none", ptr |-> NULL, nmemb |-> 0, size |-> 0,
               ret |-> NULL, old_size |-> 0]
    /\ nops = 0
    /\ run = [released |-> <<>>, retaken |-> <<>>]

\* the allocator's variables take the values of the record s
Store(s) ==
    /\ base_block' = s.base_block
    /\ first_free' = s.first_free
    /\ recent_freed' = s.recent_freed
    /\ desc' = s.desc
    /\ cur_brk' = s.cur_brk
    /\ num_brk_increase_calls' = s.num_brk_increase_calls
    /\ mem' = s.mem
    /\ status' = s.status
    /\ diag' = s.diag

CanCall == status = "running" /\ nops < MaxOps

CanAllocate(bytes) == bytes = 0 \/ Cardinality(allocs) < MaxLive

\* the caller takes a new buffer r.ret of `bytes` bytes and, when fill is
\* set, writes its pattern over it (_checked_alloc 96-124)
Took(r, bytes, fill) ==
    IF r.st.status # "running" \/ r.ret = NULL \/ bytes = 0
    THEN /\ Store(r.st)
         /\ UNCHANGED <<allocs, data_cnt>>
    ELSE LET d == IF fill THEN get_data(data_cnt) ELSE 0
         IN  /\ \E s1 \in {IF fill THEN UserFill(r.st, r.ret, d, bytes) ELSE r.st} :
                   Store(s1)
             /\ allocs' = allocs \cup {[ptr |-> r.ret, size |-> bytes, id |-> nops]}
             /\ data_cnt' = IF fill THEN d ELSE data_cnt

\* checked_alloc with mymalloc
checked_alloc(size) ==
    /\ \E r \in {mymalloc(AllocState, size)} :
           /\ Took(r, size, TRUE)
           /\ last' = [op |-> "malloc", ptr |-> NULL, nmemb |-> 1, size |-> size,
                       ret |-> r.ret, old_size |-> 0]
    /\ nops' = nops + 1

Malloc(size) ==
    /\ CanCall /\ CanAllocate(size)
    /\ checked_alloc(size)
    /\ UNCHANGED run

\* checked_alloc_array with mycalloc; the zeroed buffer is left as returned
Calloc(nmemb, size) ==
    /\ CanCall /\ CanAllocate(nmemb * size)
    /\ \E r \in {mycalloc(AllocState, nmemb, size)} :
           /\ Took(r, nmemb * size, FALSE)
           /\ last' = [op |-> "calloc", ptr |-> NULL, nmemb |-> nmemb, size |-> size,
                       ret |-> r.ret, old_size |-> 0]
    /\ nops' = nops + 1
    /\ UNCHANGED run

\* checked_realloc(NULL, size)
ReallocNull(size) ==
    /\ CanCall /\ CanAllocate(size)
    /\ \E r \in {myrealloc(AllocState, NULL, size)} :
           /\ Took(r, size, TRUE)
           /\ last' = [op |-> "realloc", ptr |-> NULL, nmemb |-> 1, size |-> size,
                       ret |-> r.ret, old_size |-> 0]
    /\ nops' = nops + 1
    /\ UNCHANGED run

\* checked_free of a live buffer: scribble over it, then myfree
checked_free(a) ==
    /\ \E s0 \in {UserFill(AllocState, a.ptr, FreedByte, a.size)} :
         \E s1 \in {IF s0.status # "running" THEN s0 ELSE myfree(s0, a.ptr)} :
           Store(s1)
    /\ allocs' = allocs \ {a}
    /\ last' = [op |-> "free", ptr |-> a.ptr, nmemb |-> 0, size |-> 0,
                ret |-> NULL, old_size |-> a.size]
    /\ nops' = nops + 1
    /\ UNCHANGED data_cnt

Free(a) ==
    /\ CanCall
    /\ checked_free(a)
    /\ UNCHANGED run

\* checked_free(NULL)
FreeNull ==
    /\ CanCall
    /\ \E s1 \in {myfree(AllocState, NULL)} : Store(s1)
    /\ last' = [op |-> "free", ptr |-> NULL, nmemb |-> 0, size |-> 0,
                ret |-> NULL, old_size |-> 0]
    /\ nops' = nops + 1
    /\ UNCHANGED <<allocs, data_cnt, run>>

\* checked_realloc of a live buffer to size > 0; the buffer is left as
\* returned, so that its bytes can be compared with the ones before
checked_realloc(a, size) ==
    /\ \E r \in {myrealloc(AllocState, a.ptr, size)} :
           /\ Store(r.st)
           /\ allocs' = IF r.st.status # "running" \/ r.ret = NULL
                        THEN allocs
                        ELSE (allocs \ {a})
                             \cup {[ptr |-> r.ret, size |-> size, id |-> nops]}
           /\ last' = [op |-> "realloc", ptr |-> a.ptr, nmemb |-> 1, size |-> size,
                       ret |-> r.ret, old_size |-> a.size]
    /\ nops' = nops + 1
    /\ UNCHANGED data_cnt

Realloc(a, size) ==
    /\ CanCall
    /\ size > 0
    /\ checked_realloc(a, size)
    /\ UNCHANGED run

\* checked_realloc of a live buffer to size 0
checked_realloc_zero(a) ==
    /\ \E s0 \in {UserFill(AllocState, a.ptr, FreedByte, a.size)} :
         \E r \in {IF s0.status # "running" THEN [st |-> s0, ret |-> NULL]
                   ELSE myrealloc(s0, a.ptr, 0)} :
           /\ Store(r.st)
           /\ last' = [op |-> "realloc", ptr |-> a.ptr, nmemb |-> 1, size |-> 0,
                       ret |-> r.ret, old_size |-> a.size]
    /\ allocs' = allocs \ {a}
    /\ nops' = nops + 1
    /\ UNCHANGED data_cnt

ReallocZero(a) ==
    /\ CanCall
    /\ checked_realloc_zero(a)
    /\ UNCHANGED run

Next ==
    \/ \E size \in Sizes : Malloc(size)
    \/ \E c \in CallocArgs : Calloc(c[1], c[2])
    \/ \E size \in NullSizes : ReallocNull(size)
    \/ \E a \in allocs : Free(a)
    \/ FreeNull
    \/ \E a \in allocs, size \in ReallocSizes : Realloc(a, size)
    \/ \E a \in allocs : ReallocZero(a)

Spec == Init /\ [][Next]_vars

TypeOK ==
    /\ status \in {"running", "exited", "crashed", "corrupted"}
    /\ nops \in 0..MaxOps

\* ------------------------------------------------------------------------
\* The reuse tests (tests.c test_realloc_zero, test_locality): buffers of one
\* size are allocated, some are released in any order, and as many are
\* allocated again
\* ------------------------------------------------------------------------
ReuseFill(size) ==
    /\ status = "running"
    /\ run.released = <<>>
    /\ Cardinality(allocs) < MaxRun
    /\ \A a \in allocs : a.size = size
    /\ checked_alloc(size)
    /\ UNCHANGED run

ReuseFree(a) ==
    /\ status = "running"
    /\ run.retaken = <<>>
    /\ checked_free(a)
    /\ run' = [run EXCEPT !.released =
                   <<[ptr |-> a.ptr, size |-> a.size, by |-> "free"]>> \o @]

ReuseReallocZero(a) ==
    /\ status = "running"
    /\ run.retaken = <<>>
    /\ checked_realloc_zero(a)
    /\ run' = [run EXCEPT !.released =
                   <<[ptr |-> a.ptr, size |-> a.size, by |-> "realloc"]>> \o @]

ReuseTake ==
    /\ status = "running"
    /\ Len(run.retaken) < Len(run.released)
    /\ checked_alloc(run.released[1].size)
    /\ run' = [run EXCEPT !.retaken = Append(@, last'.ret)]

NextReuse ==
    \/ \E size \in ReuseSizes : ReuseFill(size)
    \/ \E a \in allocs : ReuseFree(a)
    \/ \E a \in allocs : ReuseReallocZero(a)
    \/ ReuseTake

SpecReuse == Init /\ [][NextReuse]_vars

\* ------------------------------------------------------------------------
\* A caller that also hands myfree pointers it does not hold
\* ------------------------------------------------------------------------
\* pointers that are the data start of no in-use block: an address before
\* any allocation, the inside of a live buffer, a live pointer plus one, and
\* the data start of every block flagged free
BadPtrs ==
    ( {heap + SizeofMeta}
      \cup {a.ptr + ALIGNMENT : a \in allocs}
      \cup {a.ptr + 1 : a \in allocs}
      \cup {h + SizeofMeta : h \in {k \in DOMAIN desc : desc[k].free}} )
    \ ( {a.ptr : a \in allocs}
        \cup {h + SizeofMeta : h \in {k \in DOMAIN desc : ~desc[k].free}} )

\* myfree(ptr), called directly
FreeBad(ptr) ==
    /\ CanCall
    /\ \E s1 \in {myfree(AllocState, ptr)} : Store(s1)
    /\ last' = [op |-> "free", ptr |-> ptr, nmemb |-> 0, size |-> 0,
                ret |-> NULL, old_size |-> 0]
    /\ nops' = nops + 1
    /\ UNCHANGED <<allocs, data_cnt, run>>

NextEdge ==
    \/ \E size \in EdgeSizes : Malloc(size)
    \/ \E a \in allocs : Free(a)
    \/ \E ptr \in BadPtrs : FreeBad(ptr)

SpecEdge == Init /\ [][NextEdge]_vars

\* ------------------------------------------------------------------------
\* A caller that shrinks buffers as large as a page
\* ------------------------------------------------------------------------
NextShrink ==
    \/ \E size \in FillSizes : Malloc(size)
    \/ \E a \in allocs, size \in ShrinkSizes : Realloc(a, size)
    \/ \E a \in allocs : Free(a)

SpecShrink == Init /\ [][NextShrink]_vars

\* ------------------------------------------------------------------------
\* The locality test (tests.c test_locality) with one buffer more than the
\* cache has slots: the buffers are allocated, released in any order, and
\* allocations are made in between; run.released is the log of the releases
\* and of the allocations made after the first release
\* ------------------------------------------------------------------------
FifoBlocks == CacheSlots + 1

FifoTakes == 1

FifoSizes == {8, 24}

\* the size of the k-th buffer of the first generation
FifoSizeOf(k) == IF k % 2 = 1 THEN 8 ELSE 24

FifoFill ==
    /\ status = "running"
    /\ run.released = <<>>
    /\ nops < FifoBlocks
    /\ checked_alloc(FifoSizeOf(nops + 1))
    /\ UNCHANGED run

FifoFree(a) ==
    /\ status = "running"
    /\ nops >= FifoBlocks
    /\ checked_free(a)
    /\ run' = [run EXCEPT !.released =
                   Append(@, [ptr |-> a.ptr, size |-> a.size, by |-> "free"])]

FifoTake(size) ==
    /\ status = "running"
    /\ run.released # <<>>
    /\ Cardinality({k \in 1..Len(run.released) : run.released[k].by = "malloc"})
          < FifoTakes
    /\ checked_alloc(size)
    /\ run' = [run EXCEPT !.released =
                   Append(@, [ptr |-> last'.ret, size |-> size, by |-> "malloc"])]

NextFifo ==
    \/ FifoFill
    \/ \E a \in allocs : FifoFree(a)
    \/ \E size \in FifoSizes : FifoTake(size)

SpecFifo == Init /\ [][NextFifo]_vars

\* ------------------------------------------------------------------------
\* The reallocation tests (tests.c test_realloc, test_realloc_opt) one call
\* longer: buffers are allocated, made smaller in place, released, and the
\* caller goes on with the buffers it holds
\* ------------------------------------------------------------------------
LongOps == MaxOps + 1

LongSizes == {8, 20, 200}

LongShrinkSizes == {100}

LongMalloc(size) ==
    /\ status = "running" /\ nops < LongOps
    /\ CanAllocate(size)
    /\ checked_alloc(size)
    /\ UNCHANGED run

LongRealloc(a, size) ==
    /\ status = "running" /\ nops < LongOps
    /\ checked_realloc(a, size)
    /\ UNCHANGED run

LongFree(a) ==
    /\ status = "running" /\ nops < LongOps
    /\ checked_free(a)
    /\ UNCHANGED run

NextLong ==
    \/ \E size \in LongSizes : LongMalloc(size)
    \/ \E a \in allocs, size \in LongShrinkSizes : LongRealloc(a, size)
    \/ \E a \in allocs : LongFree(a)

SpecLong == Init /\ [][NextLong]_vars

\* ------------------------------------------------------------------------
\* A caller that asks for sizes over the whole range of size_t: a small size,
\* a page, half the range, and the sizes next to the top of the range; the
\* buffers are not written
\* ------------------------------------------------------------------------
WordSizes == {1, 4088, Word \div 2 - PAGE_SIZE, Word \div 2,
              Word - 2 * PAGE_SIZE, Word - PAGE_SIZE, Word - 8, Word - 1}

WordMalloc(size) ==
    /\ status = "running" /\ nops < MaxOps
    /\ CanAllocate(size)
    /\ \E r \in {mymalloc(AllocState, size)} :
           /\ Took(r, size, FALSE)
           /\ last' = [op |-> "malloc", ptr |-> NULL, nmemb |-> 1, size |-> size,
                       ret |-> r.ret, old_size |-> 0]
    /\ nops' = nops + 1
    /\ UNCHANGED run

WordFree(a) ==
    /\ status = "running" /\ nops < MaxOps
    /\ \E s1 \in {myfree(AllocState, a.ptr)} : Store(s1)
    /\ allocs' = allocs \ {a}
    /\ last' = [op |-> "free", ptr |-> a.ptr, nmemb |-> 0, size |-> 0,
                ret |-> NULL, old_size |-> a.size]
    /\ nops' = nops + 1
    /\ UNCHANGED <<data_cnt, run>>

NextWord ==
    \/ \E size \in WordSizes : WordMalloc(size)
    \/ \E a \in allocs : WordFree(a)

SpecWord == Init /\ [][NextWord]_vars

\* ------------------------------------------------------------------------
\* The descriptor functions on their own (alloc.c 269-305): a descriptor is
\* written for a block at the heap start, and its flag is set and cleared
\* ------------------------------------------------------------------------
\* total sizes: the positive multiples of the unit up to MaxUnits units
CodecTotals == {ALIGNMENT * k : k \in 1..MaxUnits}

SetDescriptor(total_size) ==
    /\ status = "running" /\ allocs = {}
    /\ \E s1 \in {set_descriptor(AllocState, heap, total_size)} : Store(s1)
    /\ last' = [op |-> "set_descriptor", ptr |-> heap, nmemb |-> 0,
                size |-> total_size, ret |-> NULL, old_size |-> 0]
    /\ UNCHANGED <<allocs, data_cnt, nops, run>>

SetInuse ==
    /\ status = "running" /\ heap \in DOMAIN desc
    /\ \E s1 \in {set_inuse(AllocState, heap)} : Store(s1)
    /\ last' = [last EXCEPT !.op = "set_inuse"]
    /\ UNCHANGED <<allocs, data_cnt, nops, run>>

SetFree ==
    /\ status = "running" /\ heap \in DOMAIN desc
    /\ \E s1 \in {set_free(AllocState, heap)} : Store(s1)
    /\ last' = [last EXCEPT !.op = "set_free"]
    /\ UNCHANGED <<allocs, data_cnt, nops, run>>

NextCodec ==
    \/ \E total_size \in CodecTotals : SetDescriptor(total_size)
    \/ SetInuse
    \/ SetFree

SpecCodec == Init /\ [][NextCodec]_vars

\* ------------------------------------------------------------------------
\* Two callers of one allocator. mymalloc is two steps of a caller: the call
\* of get_free_block (alloc.c 60-63) and set_inuse with the return (alloc.c
\* 64-66); myfree and myrealloc are one step each. In run, locked says
\* whether the callers wrap every call in one lock, owner is the caller that
\* holds it (0: nobody), pc is each caller's position, and size and result
\* are the locals of a caller inside mymalloc
\* ------------------------------------------------------------------------
Threads == {1, 2}

ThreadSizes == {20, 56, 100}

ThreadShrinkSizes == {20}

InitThreads ==
    /\ base_block = NULL
    /\ first_free = NULL
    /\ recent_freed = <<NULL, NULL, NULL, NULL, NULL>>
    /\ desc = <<>>
    /\ cur_brk = heap
    /\ num_brk_increase_calls = 0
    /\ mem = {}
    /\ status = "running"
    /\ diag = {}
    /\ allocs = {}
    /\ data_cnt = 0
    /\ last = [op |-> "none", ptr |-> NULL, nmemb |-> 0, size |-> 0,
               ret |-> NULL, old_size |-> 0]
    /\ nops = 0
    /\ \E locked \in BOOLEAN :
          run = [locked |-> locked, owner |-> 0,
                 pc |-> [t \in Threads |-> "idle"],
                 size |-> [t \in Threads |-> 0],
                 result |-> [t \in Threads |-> NULL]]

\* caller t may enter a public function
CanEnter(t) ==
    /\ status = "running"
    /\ run.pc[t] = "idle"
    /\ run.locked => run.owner = 0
    /\ nops + Cardinality({u \in Threads : run.pc[u] # "idle"}) < MaxOps

\* mymalloc up to the return of get_free_block
ThreadSearch(t, size) ==
    /\ CanEnter(t)
    /\ Cardinality(allocs) + Cardinality({u \in Threads : run.pc[u] # "idle"})
          < MaxLive
    /\ \E g \in {get_free_block(AllocState, align(size))} :
          /\ Store(g.st)
          /\ run' = [run EXCEPT !.pc[t] = "mark",
                                !.size[t] = size,
                                !.result[t] = g.ret,
                                !.owner = IF run.locked THEN t ELSE 0]
    /\ UNCHANGED <<allocs, data_cnt, last, nops>>

\* the rest of mymalloc: set_inuse(result) and the return of result + 1
ThreadMark(t) ==
    /\ status = "running"
    /\ run.pc[t] = "mark"
    /\ \E s1 \in {set_inuse(AllocState, run.result[t])} : Store(s1)
    /\ allocs' = allocs \cup {[ptr |-> run.result[t] + SizeofMeta,
                               size |-> run.size[t], id |-> nops]}
    /\ last' = [op |-> "malloc", ptr |-> NULL, nmemb |-> 1, size |-> run.size[t],
                ret |-> run.result[t] + SizeofMeta, old_size |-> 0]
    /\ nops' = nops + 1
    /\ run' = [run EXCEPT !.pc[t] = "idle", !.size[t] = 0,
                          !.result[t] = NULL, !.owner = 0]
    /\ UNCHANGED data_cnt

ThreadFree(t, a) ==
    /\ CanEnter(t)
    /\ \E s1 \in {myfree(AllocState, a.ptr)} : Store(s1)
    /\ allocs' = allocs \ {a}
    /\ last' = [op |-> "free", ptr |-> a.ptr, nmemb |-> 0, size |-> 0,
                ret |-> NULL, old_size |-> a.size]
    /\ nops' = nops + 1
    /\ UNCHANGED <<data_cnt, run>>

ThreadRealloc(t, a, size) ==
    /\ CanEnter(t)
    /\ checked_realloc(a, size)
    /\ UNCHANGED run

NextThreads ==
    \/ \E t \in Threads, size \in ThreadSizes : ThreadSearch(t, size)
    \/ \E t \in Threads : ThreadMark(t)
    \/ \E t \in Threads, a \in allocs : ThreadFree(t, a)
    \/ \E t \in Threads, a \in allocs, size \in ThreadShrinkSizes :
          ThreadRealloc(t, a, size)

SpecThreads == InitThreads /\ [][NextThreads]_vars

\* ------------------------------------------------------------------------
\* Reading the state
\* ------------------------------------------------------------------------
\* the addresses that hold a block header
Headers == DOMAIN desc

\* the header in front of a data pointer
HeaderOf(ptr) == ptr - SizeofMeta

\* the end of the block whose header is at h: the next header, or the boundary
BlockEnd(d, brk, h) ==
    IF \E k \in DOMAIN d : k > h
    THEN SetMin({k \in DOMAIN d : k > h})
    ELSE brk

\* the snapshot of the allocator's own data (chain, flags, cache, marker,
\* boundary, growth calls)
Allocator ==
    <<base_block, first_free, recent_freed, desc, cur_brk, num_brk_increase_calls>>

\* ------------------------------------------------------------------------
\* Claims
\* ------------------------------------------------------------------------

\* C1: the data regions [p, p+size) of all live allocations are pairwise
\* disjoint and none of them contains a byte of a block header.
C1_LiveRegionsDisjoint ==
    /\ \A a, b \in allocs :
          a # b => (a.ptr + a.size <= b.ptr \/ b.ptr + b.size <= a.ptr)
    /\ \A a \in allocs, h \in Headers :
          h + SizeofMeta <= a.ptr \/ h >= a.ptr + a.size

\* C2: the block of every live allocation is flagged in-use.
C2_LiveBlocksInUse ==
    \A a \in allocs :
        HeaderOf(a.ptr) \in Headers /\ ~desc[HeaderOf(a.ptr)].free

\* the headers visited from the chain base by following the sizes
RECURSIVE ChainFrom(_)
ChainFrom(h) ==
    IF h = NULL \/ h >= cur_brk \/ h \notin Headers \/ desc[h].units = 0 THEN {}
    ELSE {h} \cup ChainFrom(h + desc[h].units * ALIGNMENT)

C4_MallocZero ==
    [][(last'.op = "malloc" /\ last'.size = 0) =>
          /\ last'.ret = NULL
          /\ Allocator' = Allocator
          /\ mem' = mem
          /\ status' = status
          /\ allocs' = allocs]_vars

\* allocate(0) on an allocator that holds a released block in its cache
C4_Witness ==
    /\ last.op = "malloc" /\ last.size = 0 /\ last.ret = NULL
    /\ recent_freed[1] # NULL

\* C5: allocateZeroed(count, size) with count, size > 0 returns a block whose
\* first count*size bytes are zero; with count or size 0 it returns null and
\* writes no memory.
C5_CallocZeroed ==
    [][(last'.op = "calloc") =>
          IF last'.nmemb > 0 /\ last'.size > 0
          THEN status' # "exited" =>
                 /\ last'.ret # NULL
                 /\ \A i \in 0..(last'.nmemb * last'.size - 1) :
                       ByteAt(mem', last'.ret + i) = 0
          ELSE last'.ret = NULL /\ mem' = mem]_vars

\* a zeroed allocation placed in a released block: the byte after the zeroed
\* bytes still holds what the caller wrote there before the release
C5_Witness ==
    /\ last.op = "calloc" /\ last.ret # NULL
    /\ ByteAt(mem, last.ret + last.nmemb * last.size) = FreedByte
    /\ ByteAt(mem, last.ret) = 0

\* the smallest multiple of 8 that is >= n
AlignUp(n) == ((n + 7) \div 8) * 8

\* the bytes between a data pointer and the end of its block
Capacity(d, brk, ptr) == BlockEnd(d, brk, HeaderOf(ptr)) - ptr

\* C6: reallocate(p, new) with aligned(new) greater than the capacity of p's
\* block returns a pointer whose first min(old, new) bytes equal the bytes
\* stored at p before the call.
C6_GrowPreservesData ==
    [][(/\ last'.op = "realloc" /\ last'.ptr # NULL /\ last'.size > 0
        /\ AlignUp(last'.size) > Capacity(desc, cur_brk, last'.ptr)
        /\ status' # "exited") =>
          /\ last'.ret # NULL
          /\ \A i \in 0..(Min2(last'.old_size, last'.size) - 1) :
                ByteAt(mem', last'.ret + i) = ByteAt(mem, last'.ptr + i)]_vars

\* C7: reallocate(p, n) with 0 < n <= the size p was allocated with returns p
\* and leaves the first n bytes at p unchanged.
C7_ShrinkInPlace ==
    [][(/\ last'.op = "realloc" /\ last'.ptr # NULL
        /\ last'.size > 0 /\ last'.size <= last'.old_size
        /\ status' # "exited") =>
          /\ last'.ret = last'.ptr
          /\ \A i \in 0..(last'.size - 1) :
                ByteAt(mem', last'.ptr + i) = ByteAt(mem, last'.ptr + i)]_vars

\* C8: release(p) of a live pointer flags its block free, moves the
\* left-most-free marker to it if the marker was null or higher, puts the
\* block in slot 0 of the cache with the old slots 0..3 shifted to 1..4, and
\* changes no block size and no other block's flag.
C8_FreePostState ==
    [][(last'.op = "free" /\ last'.ptr # NULL /\ status' = "running") =>
          LET b == HeaderOf(last'.ptr)
          IN  /\ b \in Headers
              /\ DOMAIN desc' = DOMAIN desc
              /\ desc'[b].free
              /\ \A h \in Headers : desc'[h].units = desc[h].units
              /\ \A h \in Headers \ {b} : desc'[h].free = desc[h].free
              /\ first_free' = IF first_free = NULL \/ b < first_free
                               THEN b ELSE first_free
              /\ recent_freed' = <<b, recent_freed[1], recent_freed[2],
                                   recent_freed[3], recent_freed[4]>>
              /\ diag' = {}]_vars

\* C9: release(null) is a no-op in every state: no diagnostic, and chain,
\* flags, cache, marker, boundary and memory are unchanged.
C9_FreeNull ==
    [][(last'.op = "free" /\ last'.ptr = NULL) =>
          /\ Allocator' = Allocator
          /\ mem' = mem
          /\ diag' = {}
          /\ status' = "running"
          /\ allocs' = allocs]_vars

\* release(null) before the first allocation
C9_Witness ==
    /\ last.op = "free" /\ last.ptr = NULL
    /\ base_block = NULL /\ cur_brk = heap

\* C10: from every state and for every n, reallocate(null, n) returns the
\* pointer and leaves the state that allocate(n) returns and leaves.
C10_ReallocNullIsMalloc ==
    \A n \in Sizes :
        myrealloc(AllocState, NULL, n) = mymalloc(AllocState, n)

\* reallocate(null, n) answered from a released block: the byte after the
\* new buffer still holds what the caller wrote there before the release
C10_Witness ==
    /\ last.op = "realloc" /\ last.ptr = NULL /\ last.size > 0
    /\ last.ret # NULL
    /\ ByteAt(mem, last.ret + last.size) = FreedByte

\* the pointers of a sequence of released buffers
ReleasedPtrs(rel) == {rel[i].ptr : i \in 1..Len(rel)}

\* C11: reallocate(p, 0) with a live pointer p returns null and leaves the
\* allocator in the state release(p) leaves it in; and after three buffers of
\* one size were released through reallocate(p, 0), the next three
\* allocations of that size return exactly those three buffers.
C11_ReallocZeroIsFree ==
    /\ \A a \in allocs :
          myrealloc(AllocState, a.ptr, 0) =
              [st |-> myfree(AllocState, a.ptr), ret |-> NULL]
    /\ ( /\ Len(run.released) = 3
         /\ \A i \in 1..3 : run.released[i].by = "realloc"
         /\ Len(run.retaken) = 3 )
       => {run.retaken[i] : i \in 1..3} = ReleasedPtrs(run.released)

\* C12: when k <= 5 buffers of one size were released with no allocation in
\* between, the i-th of the next k allocations of that size returns the
\* i-th most recently released buffer.
C12_LifoReuse ==
    Len(run.released) <= CacheSlots =>
        \A i \in 1..Len(run.retaken) : run.retaken[i] = run.released[i].ptr

\* where the walk from h along the computed successors stops
RECURSIVE ChainEnd(_)
ChainEnd(h) ==
    IF h >= cur_brk \/ h \notin Headers \/ desc[h].units = 0 THEN h
    ELSE ChainEnd(h + desc[h].units * ALIGNMENT)

\* the bytes of the blocks whose headers are in S
RECURSIVE SumSizes(_)
SumSizes(S) ==
    IF S = {} THEN 0
    ELSE LET h == SetMin(S)
         IN  desc[h].units * ALIGNMENT + SumSizes(S \ {h})

C15_LeftMostFree ==
    first_free # NULL =>
        \A h \in Headers : desc[h].free => first_free <= h

\* the bytes the blocks of the allocations in S need: the aligned size and
\* one header each
RECURSIVE BlocksNeed(_)
BlocksNeed(S) ==
    IF S = {} THEN 0
    ELSE LET a == CHOOSE x \in S : TRUE
         IN  AlignUp(a.size) + SizeofMeta + BlocksNeed(S \ {a})

\* C16: one allocate makes at most one growth call; while every call so far
\* was an allocation, an allocation whose block fits with the earlier ones
\* into the pages already obtained makes no growth call; and up to 128
\* allocations of at most 32 bytes make fewer than 8 growth calls.
C16_GrowthBatching ==
    [][ /\ num_brk_increase_calls' <= num_brk_increase_calls + 1
        /\ ( /\ last'.op = "malloc" /\ last'.size > 0
             /\ nops' = nops + 1
             /\ nops = Cardinality(allocs)
             /\ BlocksNeed(allocs) + AlignUp(last'.size) + SizeofMeta
                    <= cur_brk - heap )
           => num_brk_increase_calls' = num_brk_increase_calls
        /\ ( /\ nops' = Cardinality(allocs') /\ nops' <= 128
             /\ \A a \in allocs' : a.size <= 32 )
           => num_brk_increase_calls' < 8 ]_vars

\* the smallest multiple of the page size that is >= n
PageSpan(n) == ((n + PAGE_SIZE - 1) \div PAGE_SIZE) * PAGE_SIZE

\* C17: expand_heap(n), when the heap source grants it, moves the boundary in
\* one call by the smallest multiple of the page size that is >= n plus one
\* header, and makes the new span one free block at the old boundary whose
\* size is the span; the blocks of the chain stay as they were.
C17_GrowSpan ==
    \A n \in GrowSizes :
        LET e == expand_heap(AllocState, n)
            span == PageSpan(n + SizeofMeta)
        IN  e.st.status = "running" =>
              /\ e.st.cur_brk = cur_brk + span
              /\ e.st.num_brk_increase_calls = num_brk_increase_calls + 1
              /\ e.ret = cur_brk
              /\ DOMAIN e.st.desc = Headers \cup {cur_brk}
              /\ e.st.desc[cur_brk] = [free |-> TRUE, units |-> span \div ALIGNMENT]
              /\ \A h \in Headers : e.st.desc[h] = desc[h]

\* C18: when some block flagged free has room for the aligned request, an
\* allocation makes no growth call, leaves the boundary where it is, and
\* returns a buffer inside a block that was flagged free.
C18_ReuseBeforeGrowth ==
    [][ ( /\ last'.op = "malloc" /\ last'.size > 0
          /\ nops' = nops + 1
          /\ \E h \in Headers :
                /\ desc[h].free
                /\ BlockEnd(desc, cur_brk, h) - h - SizeofMeta >= AlignUp(last'.size) )
        => /\ num_brk_increase_calls' = num_brk_increase_calls
           /\ cur_brk' = cur_brk
           /\ \E h \in Headers :
                 /\ desc[h].free
                 /\ h < last'.ret
                 /\ last'.ret + last'.size <= BlockEnd(desc, cur_brk, h) ]_vars

\* C19: myfree of a non-null pointer that is the data start of no in-use
\* block returns, prints a diagnostic, and leaves chain, flags, cache, marker
\* and boundary as they were.
C19_BadRelease ==
    [][ ( /\ last'.op = "free" /\ last'.ptr # NULL /\ last'.old_size = 0
          /\ nops' = nops + 1 )
        => /\ status' = "running"
           /\ diag' # {}
           /\ Allocator' = Allocator ]_vars

\* C20: myfree of a non-null pointer that is not a multiple of 8 prints the
\* bad-alignment diagnostic.
C20_AlignmentReported ==
    (last.op = "free" /\ last.ptr # NULL /\ last.ptr % ALIGNMENT # 0) =>
        "Bad alignment, not a possible block" \in diag

Span(h) == desc[h].units * ALIGNMENT - SizeofMeta

\* the two most recently released blocks, a then b, are adjacent (b follows
\* a), both are still free, and n bytes fit in their joint span but in
\* neither of them
JoinRequest(n) ==
    /\ recent_freed[1] # NULL /\ recent_freed[2] # NULL
    /\ desc[recent_freed[1]].free /\ desc[recent_freed[2]].free
    /\ recent_freed[2] + desc[recent_freed[2]].units * ALIGNMENT = recent_freed[1]
    /\ n > 0
    /\ AlignUp(n) > Span(recent_freed[1]) /\ AlignUp(n) > Span(recent_freed[2])
    /\ AlignUp(n) <= Span(recent_freed[1]) + SizeofMeta + Span(recent_freed[2])

AllocStep ==
    /\ last'.op = "malloc" /\ last'.size > 0 /\ last'.ret # NULL
    /\ nops' = nops + 1 /\ status' = "running"

\* the step is a returned reallocate(p, n) of a live p with n > 0 whose
\* aligned size is within the capacity of p's block
ShrinkStep ==
    /\ last'.op = "realloc" /\ last'.ptr # NULL /\ last'.size > 0
    /\ nops' = nops + 1 /\ status' = "running"
    /\ AlignUp(last'.size) <= Capacity(desc, cur_brk, last'.ptr)

\* the capacity of the block allocate chose, before it was cut: that of an
\* existing block, or of the span the heap grew by
CandidateCapacity ==
    IF HeaderOf(last'.ret) \in Headers
    THEN Capacity(desc, cur_brk, last'.ret)
    ELSE cur_brk' - cur_brk - SizeofMeta

\* C24: allocate splits its candidate exactly when the candidate's capacity
\* exceeds the aligned size by more than 16 bytes, so the block it returns
\* has at most 16 bytes more than the aligned size; reallocate to a size
\* within the block's capacity splits the block in place exactly when the
\* capacity exceeds the aligned size by more than 16 bytes; and every free
\* block a step creates has at least one unit of capacity the allocator can
\* use.
C24_SplitThreshold ==
    [][ /\ AllocStep =>
              /\ (HeaderOf(last'.ret) + SizeofMeta + AlignUp(last'.size)
                     \in DOMAIN desc' \ Headers)
                  <=> (CandidateCapacity - AlignUp(last'.size) > SizeofMeta + ALIGNMENT)
              /\ Capacity(desc', cur_brk', last'.ret) - AlignUp(last'.size)
                     <= SizeofMeta + ALIGNMENT
        /\ ShrinkStep =>
              /\ last'.ret = last'.ptr
              /\ (last'.ptr + AlignUp(last'.size) \in DOMAIN desc' \ Headers)
                  <=> (Capacity(desc, cur_brk, last'.ptr) - AlignUp(last'.size)
                         > SizeofMeta + ALIGNMENT)
        /\ \A h \in DOMAIN desc' \ Headers :
              desc'[h].free =>
                  (desc'[h].units # 8 /\ desc'[h].units * ALIGNMENT - SizeofMeta >= ALIGNMENT)
      ]_vars

\* the cache slots whose block has room for n bytes
FittingSlots(n) ==
    {i \in 1..CacheSlots :
        recent_freed[i] # NULL /\ Span(recent_freed[i]) >= AlignUp(n)}

\* C25: when some cache entry has room for the aligned request, allocate
\* returns the block of the lowest such slot, empties that slot, leaves the
\* other slots as they were, and neither grows the heap nor moves the
\* boundary.
C25_CachePrecedence ==
    [][ ( /\ last'.op = "malloc" /\ last'.size > 0 /\ nops' = nops + 1
          /\ FittingSlots(last'.size) # {} )
        => /\ status' = "running"
           /\ last'.ret = recent_freed[SetMin(FittingSlots(last'.size))] + SizeofMeta
           /\ recent_freed' =
                 [recent_freed EXCEPT ![SetMin(FittingSlots(last'.size))] = NULL]
           /\ num_brk_increase_calls' = num_brk_increase_calls
           /\ cur_brk' = cur_brk ]_vars

\* the free blocks at or after the marker that have room for n bytes
FittingBlocks(n) ==
    {h \in Headers : h >= first_free /\ desc[h].free /\ Span(h) >= AlignUp(n)}

\* C26: when the chain has a base and no cache entry has room for the
\* aligned request, allocate returns the lowest-addressed free block at or
\* after the marker that has room for it, without a growth call, and grows
\* the heap only when there is no such block.
C26_FirstFit ==
    [][ ( /\ last'.op = "malloc" /\ last'.size > 0 /\ nops' = nops + 1
          /\ status' = "running"
          /\ base_block # NULL
          /\ FittingSlots(last'.size) = {} )
        => IF FittingBlocks(last'.size) # {}
           THEN /\ last'.ret = SetMin(FittingBlocks(last'.size)) + SizeofMeta
                /\ num_brk_increase_calls' = num_brk_increase_calls
           ELSE /\ last'.ret = cur_brk + SizeofMeta
                /\ num_brk_increase_calls' = num_brk_increase_calls + 1 ]_vars

\* C27: expand_heap(n), when the heap source grants it, leaves the marker
\* where it is when the marker is a block flagged free (which lies below the
\* new block), and sets it to the new block otherwise.
C27_GrowKeepsMarker ==
    \A n \in GrowSizes :
        \A e \in {expand_heap(AllocState, n)} :
            e.st.status = "running" =>
                e.st.first_free =
                    IF first_free # NULL /\ desc[first_free].free
                    THEN first_free
                    ELSE e.ret

\* the step is a returned reallocate(p, n) of a live p with n > 0 whose
\* aligned size exceeds the capacity of p's block
GrowStep ==
    /\ last'.op = "realloc" /\ last'.ptr # NULL /\ last'.size > 0
    /\ nops' = nops + 1 /\ status' = "running"
    /\ AlignUp(last'.size) > Capacity(desc, cur_brk, last'.ptr)

\* C28: a reallocate that needs more than the block's capacity returns a
\* pointer other than the old one, to a block that shares no byte with the
\* old block; on return the old block is flagged free and is in slot 0 of
\* the cache, and the new block is flagged in-use.
C28_GrowAndMove ==
    [][ GrowStep =>
          /\ last'.ret # NULL /\ last'.ret # last'.ptr
          /\ HeaderOf(last'.ret) \in DOMAIN desc'
          /\ \/ BlockEnd(desc', cur_brk', HeaderOf(last'.ret)) <= HeaderOf(last'.ptr)
             \/ HeaderOf(last'.ret) >= BlockEnd(desc, cur_brk, HeaderOf(last'.ptr))
          /\ desc'[HeaderOf(last'.ptr)].free
          /\ recent_freed'[1] = HeaderOf(last'.ptr)
          /\ ~desc'[HeaderOf(last'.ret)].free ]_vars

\* the step is a reallocate(p, n) that cut p's block in place: it returned
\* p and a new header stands right behind the aligned size
SplitInPlace ==
    /\ last'.op = "realloc" /\ last'.ptr # NULL /\ last'.size > 0
    /\ nops' = nops + 1 /\ status' = "running"
    /\ last'.ret = last'.ptr
    /\ last'.ptr + AlignUp(last'.size) \in DOMAIN desc' \ Headers

\* C29: when reallocate cuts a block in place, the remainder is a free block
\* that starts right behind the shrunk block and ends where the block
\* ended, the marker is the remainder, and an allocation made next of a
\* size that fits the remainder makes no growth call.
C29_ShrinkRemainder ==
    [][ SplitInPlace =>
          /\ desc'[last'.ptr + AlignUp(last'.size)].free
          /\ BlockEnd(desc', cur_brk', last'.ptr + AlignUp(last'.size))
                = BlockEnd(desc, cur_brk, HeaderOf(last'.ptr))
          /\ first_free' = last'.ptr + AlignUp(last'.size)
          /\ \A n \in FillSizes :
                AlignUp(n) <= BlockEnd(desc, cur_brk, HeaderOf(last'.ptr))
                                - (last'.ptr + AlignUp(last'.size)) - SizeofMeta
                => mymalloc(AllocState', n).st.num_brk_increase_calls
                     = num_brk_increase_calls' ]_vars

\* the block at h was released by the last call and is the lowest-addressed
\* block flagged free
ReleasedLowest(h) ==
    /\ last.op = "free" /\ last.ptr # NULL /\ h = HeaderOf(last.ptr)
    /\ status = "running" /\ diag = {}
    /\ h \in Headers /\ desc[h].free
    /\ \A k \in Headers : desc[k].free => h <= k

\* C30: after the release of a block that is the lowest-addressed free
\* block, two allocations whose blocks (aligned size plus header) together
\* fit in its capacity are both placed inside the released block, the second
\* right behind the block of the first.
C30_SplitReuse ==
    \A h \in Headers :
        ReleasedLowest(h) =>
            \A n1, n2 \in SmallSizes :
                (AlignUp(n1) + SizeofMeta + AlignUp(n2) + SizeofMeta <= Span(h)) =>
                    \A r1 \in {mymalloc(AllocState, n1)} :
                      \A r2 \in {mymalloc(r1.st, n2)} :
                        /\ r1.ret = h + SizeofMeta
                        /\ r2.ret = r1.ret + AlignUp(n1) + SizeofMeta
                        /\ r2.ret + n2 <= h + SizeofMeta + Span(h)

ReleasedRun(lo, hi, n) ==
    /\ \E i \in 1..CacheSlots : recent_freed[i] = lo
    /\ \E i \in 1..CacheSlots : recent_freed[i] = hi
    /\ desc[lo].free /\ desc[hi].free
    /\ lo + desc[lo].units * ALIGNMENT = hi
    /\ n > 0
    /\ AlignUp(n) > Span(lo) /\ AlignUp(n) > Span(hi)
    /\ AlignUp(n) <= Span(lo) + SizeofMeta + Span(hi)

\* C32: an allocation larger than each of two adjacent released blocks but
\* not larger than their joint span returns an address inside the address
\* range of the two blocks.
C32_MergeReuse ==
    [][ \A lo, hi \in Headers :
          ( /\ last'.op = "malloc" /\ nops' = nops + 1
            /\ ReleasedRun(lo, hi, last'.size)
            /\ status' # "exited" )
          => /\ status' = "running"
             /\ lo < last'.ret
             /\ last'.ret + AlignUp(last'.size) <= hi + desc[hi].units * ALIGNMENT ]_vars


\* the step is a release of the highest live buffer: every buffer that stays
\* live lies below it (tests.c 345-351)
ReleaseTop ==
    /\ last'.op = "free" /\ last'.ptr # NULL
    /\ nops' = nops + 1 /\ status' # "exited"
    /\ \E a \in allocs : a.ptr = last'.ptr
    /\ \A a \in allocs' : a.ptr < last'.ptr

\* C33: a step lowers the boundary only to an address at or above the end of
\* every live buffer, and the release of the highest live buffer lowers the
\* boundary below the released buffer.
C33_HeapShrink ==
    [][ /\ cur_brk' < cur_brk =>
              \A a \in allocs' : a.ptr + a.size <= cur_brk'
        /\ ReleaseTop =>
              /\ status' = "running"
              /\ cur_brk' < cur_brk
              /\ cur_brk' < last'.ptr ]_vars


\* the number of releases logged after the j-th event
LaterReleases(j) ==
    Cardinality({k \in (j + 1)..Len(run.released) : run.released[k].by = "free"})

\* an allocation logged after the j-th event returned the buffer of that event
TakenLater(j) ==
    \E k \in (j + 1)..Len(run.released) :
        /\ run.released[k].by = "malloc"
        /\ run.released[k].ptr = run.released[j].ptr

\* the releases whose block no later allocation has taken
Pending == {j \in 1..Len(run.released) :
               run.released[j].by = "free" /\ ~TakenLater(j)}

\* C34: a released block that no later allocation has taken is flagged free;
\* after n < 5 later releases it is the entry n + 1 of the cache, after 5 or
\* more later releases it is in no slot; and every entry of the cache is such
\* a block, so the entries are in the order of release, the latest first.
C34_FifoEviction ==
    /\ \A j \in Pending :
          \E h \in {HeaderOf(run.released[j].ptr)} :
          \E n \in {LaterReleases(j)} :
             /\ h \in Headers /\ desc[h].free
             /\ n < CacheSlots => recent_freed[n + 1] = h
             /\ n >= CacheSlots => \A i \in 1..CacheSlots : recent_freed[i] # h
    /\ \A i \in 1..CacheSlots :
          recent_freed[i] # NULL =>
              \E j \in Pending :
                  /\ LaterReleases(j) = i - 1
                  /\ HeaderOf(run.released[j].ptr) = recent_freed[i]

\* the first released block has left the cache with the fifth release after
\* it and is still free, and no allocation was made since
C34_Witness ==
    /\ status = "running"
    /\ Len(run.released) = CacheSlots + 1
    /\ \A k \in 1..Len(run.released) : run.released[k].by = "free"
    /\ \A i \in 1..CacheSlots : recent_freed[i] # NULL
    /\ \A i \in 1..CacheSlots : recent_freed[i] # HeaderOf(run.released[1].ptr)
    /\ desc[HeaderOf(run.released[1].ptr)].free


\* h is null or the header of a block from which the walk along the
\* successors arrives at the boundary
ValidStart(h) ==
    h = NULL \/ (h \in Headers /\ heap <= h /\ h < cur_brk /\ ChainEnd(h) = cur_brk)

\* C35: no call has stopped inside a scan; the chain head, the marker and
\* every cache entry are null or the header of a block in the heap from which
\* the successors lead to the boundary, and every block has a size of at
\* least one unit.
C35_ScansTerminate ==
    /\ status \in {"running", "exited"}
    /\ ValidStart(base_block)
    /\ ValidStart(first_free)
    /\ \A i \in 1..CacheSlots : ValidStart(recent_freed[i])
    /\ \A h \in Headers : desc[h].units >= 1


\* C36: for every size s > 0, align(s) is the smallest multiple of 8 that is
\* at least s, and allocate(s) either ends the program through the heap
\* source or returns a block with room for s bytes and leaves no block of
\* zero units in the chain.
C36_NoWrap ==
    [][ ( last'.op = "malloc" /\ nops' = nops + 1 /\ last'.size > 0 )
        => /\ align(last'.size) = AlignUp(last'.size)
           /\ \/ status' = "exited"
              \/ /\ status' = "running"
                 /\ last'.ret # NULL
                 /\ Capacity(desc', cur_brk', last'.ret) >= last'.size
                 /\ \A h \in DOMAIN desc' : desc'[h].units >= 1 ]_vars


\* C37: while nothing has been allocated, release(p) of a non-null p returns
\* with a diagnostic and the allocator as it was, and reallocate(p, n) with
\* n > 0 returns null with a diagnostic and the allocator as it was.
C37_BeforeAllocation ==
    (status = "running" /\ base_block = NULL) =>
        \A p \in BadPtrs :
            /\ \A f \in {myfree(AllocState, p)} :
                   /\ f.status = "running"
                   /\ f.diag # {}
                   /\ [f EXCEPT !.diag = {}] = AllocState
            /\ \A n \in NullSizes \ {0} :
                 \A r \in {myrealloc(AllocState, p, n)} :
                   /\ r.ret = NULL
                   /\ r.st.status = "running"
                   /\ r.st.diag # {}
                   /\ [r.st EXCEPT !.diag = {}] = AllocState


\* C39: after a descriptor was written for a total size and the flag set or
\* cleared any number of times, the data size read back plus one header is
\* that total size, the successor is the block address plus the total size,
\* and the flag is the one last set (free after set_descriptor).
C39_CodecRoundTrip ==
    last.op \in {"set_descriptor", "set_inuse", "set_free"} =>
        /\ get_data_size(AllocState, heap) + SizeofMeta = last.size
        /\ get_next_meta(AllocState, heap) = heap + last.size
        /\ check_free(AllocState, heap) = (last.op # "set_inuse")


\* C38: when the callers wrap every call in one lock, the live buffers are
\* pairwise disjoint and the chain from the base visits every header and
\* ends on the boundary, in every state of every interleaving.
C38_LockedCallsSafe ==
    run.locked =>
        /\ \A a, b \in allocs :
              a # b => (a.ptr + a.size <= b.ptr \/ b.ptr + b.size <= a.ptr)
        /\ base_block # NULL =>
              /\ ChainFrom(base_block) = Headers
              /\ ChainEnd(base_block) = cur_brk

\* without the lock, two callers inside mymalloc at the same time have both
\* returned the same block: four calls were made, none of them reallocate
C38_Race ==
    /\ ~run.locked
    /\ status = "running"
    /\ nops = 4 /\ last.op = "malloc"
    /\ \E a, b \in allocs : a # b /\ a.ptr = b.ptr

=============================================================================
